---- MODULE Spec2Model ----
(***************************************************************************)
(* fastflow: maximally-delayed causal flow / gflow / Pauli flow finders,   *)
(* their verifiers and the GF(2) solver.                                   *)
(*                                                                         *)
(* The Python layer (src/python/fastflow) validates the open graph, maps   *)
(* the nodes to dense indices with IndexMap, calls the compiled core       *)
(* (fastflow._impl) and decodes the answer.  The Python layer is modelled  *)
(* from its source.  The compiled core is not part of src/; it is modelled *)
(* from the specification (sections 4.B - 4.G), and where the wording of   *)
(* the specification disagrees with the expected values of the test assets *)
(* (src/tests/assets.py) the assets are followed; each such place is       *)
(* marked below.                                                           *)
(***************************************************************************)
EXTENDS Integers, Sequences, FiniteSets, TLC

VARIABLES
    g,        \* the networkx graph: [order |-> nodes in insertion order, edges |-> set of 2-sets]
    iset,     \* input nodes
    oset,     \* output nodes
    tys,      \* the Python types of the arguments g, iset, oset
    plike,    \* the plane / pplane argument of the last gflow / pflow call
    op,       \* the entry point that ran last ("init" before any call)
    ret,      \* what the last find returned
    verdict,  \* what the last verify did
    a,        \* solver: coefficient array [dtype, shape, data]
    b,        \* solver: right-hand-side array, one column per equation
    x,        \* solver: what solve returned
    loop,     \* flow finder: the state of its layer loop, over indices
    arg,      \* IndexMap: the argument of the last encode / decode
    outcome   \* IndexMap: what the last encode / decode returned or raised

vars == <<g, iset, oset, tys, plike, op, ret, verdict, a, b, x, loop, arg, outcome>>

----------------------------------------------------------------------------
(* Bounds of the model *)

\* Open graphs on nodes 1..n are enumerated exhaustively for n <= MaxNodes.
MaxNodes == 3

\* The solver is run on every binary matrix A of at most MaxRows x MaxCols.
MaxRows == 2

MaxCols == 3

----------------------------------------------------------------------------
(* Small helpers *)

Min(S) == CHOOSE m \in S : \A k \in S : m <= k

Max(S) == CHOOSE m \in S : \A k \in S : m >= k

SeqToSet(s) == {s[k] : k \in 1..Len(s)}

\* a (x) b : symmetric difference, the XOR of two bit-packed rows
SymDiff(S, T) == (S \ T) \cup (T \ S)

\* The outcome of an argument check: no exception, or the exception raised.
NoError == [exc |-> "none", msg |-> ""]

Raise(exc, msg) == [exc |-> exc, msg |-> msg]

----------------------------------------------------------------------------
(* common.py : measurement labels *)

XY == 0
YZ == 1
ZX == 2
PX == 3
PY == 4
PZ == 5

Planes == {XY, YZ, ZX}

PPlanes == {XY, YZ, ZX, PX, PY, PZ}

----------------------------------------------------------------------------
(* _common.py : IndexMap *)

\* IndexMap.__init__ : i2v = list(vset); v2i = {v: i for i, v in enumerate(i2v)}.
\* The codec is the sequence i2v; dense index i is position i + 1 of it.
IndexMap(vseq) == vseq

NumNodes(codec) == Len(codec)

Indices(codec) == 0..(Len(codec) - 1)

\* IndexMap.encode on a registered node
encode(codec, v) == CHOOSE i \in Indices(codec) : codec[i + 1] = v

\* IndexMap.decode on an index in range
decode(codec, i) == codec[i + 1]

encode_set(codec, vset) == {encode(codec, v) : v \in vset}

decode_set(codec, s) == {decode(codec, i) : i \in s}

\* What an encode / decode call does: return val, or raise
NotCalled == [exc |-> "none", msg |-> "", val |-> -1]

Gives(val) == [exc |-> "none", msg |-> "", val |-> val]

Fails(exc, msg) == [exc |-> exc, msg |-> msg, val |-> -1]

\* v2i = {v: i for i, v in enumerate(i2v)} : a later position replaces an
\* earlier one under the same key
IndexMap_v2i(codec) ==
    [v \in SeqToSet(codec) |-> Max({i \in Indices(codec) : codec[i + 1] = v})]

\* An encode that answers index 0 for a node it does not know
IndexMap_encode_Default(codec, v) ==
    IF v \notin DOMAIN IndexMap_v2i(codec) THEN Gives(0)
    ELSE Gives(IndexMap_v2i(codec)[v])

\* IndexMap.encode : ind = v2i.get(v); ValueError if ind is None
IndexMap_encode(codec, v) ==
    IF v \notin DOMAIN IndexMap_v2i(codec)
    THEN Fails("ValueError", ToString(v) \o " not found.")
    ELSE Gives(IndexMap_v2i(codec)[v])

\* IndexMap.decode : i2v[i], IndexError turned into ValueError.  A list takes
\* the indices -n..-1 as counted from its end.
IndexMap_decode(codec, i) ==
    IF i \in Indices(codec) THEN Gives(codec[i + 1])
    ELSE IF -i \in 1..Len(codec) THEN Gives(codec[Len(codec) + i + 1])
    ELSE Fails("ValueError", ToString(i) \o " not found.")

\* g[v].keys() : the neighbours of v
Neighbours(gr, v) == {w \in SeqToSet(gr.order) : {v, w} \in gr.edges /\ w # v}

\* IndexMap.encode_graph : [encode_set(g[v].keys()) for v in i2v]
encode_graph(codec, gr) ==
    [i \in Indices(codec) |-> encode_set(codec, Neighbours(gr, decode(codec, i)))]

\* IndexMap.encode_dictkey
encode_dictkey(codec, mapping) ==
    [i \in encode_set(codec, DOMAIN mapping) |-> mapping[decode(codec, i)]]

\* IndexMap.encode_flow
encode_flow(codec, f) ==
    [i \in encode_set(codec, DOMAIN f) |-> encode(codec, f[decode(codec, i)])]

\* IndexMap.encode_gflow
encode_gflow(codec, f) ==
    [i \in encode_set(codec, DOMAIN f) |-> encode_set(codec, f[decode(codec, i)])]

\* encode_layer that reads the layers in the order of the node names instead
\* of the order of the codec
encode_layer_ByName(codec, layer) ==
    [i \in Indices(codec) |-> layer[CHOOSE v \in DOMAIN layer : Cardinality({w \in DOMAIN layer : w < v}) = i]]

\* IndexMap.encode_layer : [layer[v] for v in i2v]
encode_layer(codec, layer) == [i \in Indices(codec) |-> layer[decode(codec, i)]]

\* A decoding that builds {decode(j): decode(i)} from the pairs i -> j
decode_flow_Inverted(codec, f_) ==
    [v \in {decode(codec, f_[i]) : i \in DOMAIN f_} |->
        decode(codec, CHOOSE i \in DOMAIN f_ : f_[i] = encode(codec, v))]

\* IndexMap.decode_flow
decode_flow(codec, f_) ==
    [v \in decode_set(codec, DOMAIN f_) |-> decode(codec, f_[encode(codec, v)])]

\* IndexMap.decode_gflow
decode_gflow(codec, f_) ==
    [v \in decode_set(codec, DOMAIN f_) |-> decode_set(codec, f_[encode(codec, v)])]

\* decode_layer that hands the layers out in the order of the node names
\* instead of the order of the codec
decode_layer_ByName(codec, layer_) ==
    [v \in SeqToSet(codec) |-> layer_[Cardinality({w \in SeqToSet(codec) : w < v})]]

\* IndexMap.decode_layer : {decode(i): li for i, li in enumerate(layer_)}
decode_layer(codec, layer_) ==
    [v \in decode_set(codec, DOMAIN layer_) |-> layer_[encode(codec, v)]]

----------------------------------------------------------------------------
(* Graph substrate of the core (section 4.C) *)

\* Odd(S) = { v : |G[v] \cap S| is odd }
Odd(g_, S) == {v \in DOMAIN g_ : Cardinality(g_[v] \cap S) % 2 = 1}

----------------------------------------------------------------------------
(* GF(2) solver core (section 4.B), fastflow._impl.solve                   *)
(* A row of the augmented matrix [A | B] is the pair of its bit sets:      *)
(* a = the columns of A holding a 1, b = the columns of B holding a 1.     *)

\* Row addition that leaves the right-hand side of the row as it was
XorRow_LhsOnly(r1, r2) == [a |-> SymDiff(r1.a, r2.a), b |-> r1.b]

XorRow(r1, r2) == [a |-> SymDiff(r1.a, r2.a), b |-> SymDiff(r1.b, r2.b)]

\* Step 2: Gauss-Jordan elimination to reduced row-echelon form, pivoting on
\* the columns of A from left to right; piv[k] is the pivot column of row k.
RECURSIVE GaussJordan(_, _, _, _)
GaussJordan(rows, piv, c, n) ==
    IF c = n THEN [rows |-> rows, piv |-> piv]
    ELSE LET r == Len(piv) + 1
             cand == {i \in r..Len(rows) : c \in rows[i].a}
         IN  IF cand = {} THEN GaussJordan(rows, piv, c + 1, n)
             ELSE LET p == Min(cand)
                      swapped == [rows EXCEPT ![r] = rows[p], ![p] = rows[r]]
                      elim == [i \in 1..Len(rows) |->
                                  IF i # r /\ c \in swapped[i].a
                                  THEN XorRow(swapped[i], swapped[r])
                                  ELSE swapped[i]]
                  IN  GaussJordan(elim, Append(piv, c), c + 1, n)

\* Inconsistency looked for in the last row only
Inconsistent_LastRow(red, j) ==
    LET i == Len(red.rows) IN red.rows[i].a = {} /\ j \in red.rows[i].b

\* Step 3, first bullet: column j is inconsistent iff some row has an all-zero
\* A-part and a 1 in B-column j.
Inconsistent(red, j) == \E i \in 1..Len(red.rows) : red.rows[i].a = {} /\ j \in red.rows[i].b

FreeCols(red, n) == (0..(n - 1)) \ SeqToSet(red.piv)

\* Step 3, second bullet: back substitution with the free variables set as in
\* free (the set of free columns given the value 1); the support of x.
BackSubstitute(red, j, free) ==
    free \cup {red.piv[i] : i \in {k \in 1..Len(red.piv) :
                  (j \in red.rows[k].b) # (Cardinality(red.rows[k].a \cap free) % 2 = 1)}}

\* The bit pattern of a free-variable assignment, read in ascending column
\* order: f1 is before f2 when, at the first column where they differ, f1 has 0.
LexBefore(f1, f2) == f1 # f2 /\ Min(SymDiff(f1, f2)) \in f2

\* Step 3, third bullet: among the 2^f assignments of the free variables the one
\* of minimum Hamming weight of x, ties broken by the smallest bit pattern.
Better(red, j, f1, f2) ==
    LET w1 == Cardinality(BackSubstitute(red, j, f1))
        w2 == Cardinality(BackSubstitute(red, j, f2))
    IN  w1 < w2 \/ (w1 = w2 /\ LexBefore(f1, f2))

\* The particular solution: every free variable 0
MinWeightFree_Zero(red, j, n) == {}

MinWeightFree(red, j, n) ==
    CHOOSE f1 \in SUBSET FreeCols(red, n) :
        \A f2 \in SUBSET FreeCols(red, n) : f2 = f1 \/ Better(red, j, f1, f2)

\* One right-hand side: [some |-> FALSE] is "no solution", else the support of x.
SolveColumn(red, j, n) ==
    IF Inconsistent(red, j) THEN [some |-> FALSE, x |-> {}]
    ELSE [some |-> TRUE, x |-> BackSubstitute(red, j, MinWeightFree(red, j, n))]

\* solve(A, B) on bit-set rows: one answer per column 0..k-1 of B.
SolveRows(rows, n, k) ==
    LET red == GaussJordan(rows, <<>>, 0, n)
    IN  [j \in 0..(k - 1) |-> SolveColumn(red, j, n)]

----------------------------------------------------------------------------
(* solver.py *)

\* numpy arrays: [dtype, shape, data], data in row-major order; a bool array
\* holds 0 / 1 under dtype "bool".
At2(arr, i, j) == arr.data[i * arr.shape[2] + j + 1]

\* The outcome of a call of solver.solve: an exception, or the returned list.
SolveRaised(exc, msg) == [exc |-> exc, msg |-> msg, out |-> <<>>]

SolveReturned(out) == [exc |-> "none", msg |-> "", out |-> out]

NotSolved == [exc |-> "none", msg |-> "", out |-> <<>>]

\* _arraycheck : bool arrays pass, non-integer dtypes are a TypeError, integer
\* arrays are cast with x.astype(bool) and must equal their cast.
arraycheck(arr) ==
    IF arr.dtype = "bool" THEN [err |-> NoError, arr |-> arr]
    ELSE IF arr.dtype # "int"
    THEN [err |-> Raise("TypeError", "Need to cast non-integral dtype to boolean."), arr |-> arr]
    ELSE LET xb == [dtype |-> "bool", shape |-> arr.shape,
                    data |-> [k \in 1..Len(arr.data) |-> IF arr.data[k] # 0 THEN 1 ELSE 0]]
         IN  IF \E k \in 1..Len(arr.data) : arr.data[k] # xb.data[k]
             THEN [err |-> Raise("ValueError", "Casted array is not equivalent to the original."),
                   arr |-> arr]
             ELSE [err |-> NoError, arr |-> xb]

\* The rows of the augmented matrix [a_ | b_] as bit sets
BitRows(a_, b_) ==
    [i \in 1..a_.shape[1] |->
        [a |-> {c \in 0..(a_.shape[2] - 1) : At2(a_, i - 1, c) = 1},
         b |-> {c \in 0..(b_.shape[2] - 1) : At2(b_, i - 1, c) = 1}]]

\* fastflow._impl.solve on two 2-D bool arrays with the same number of rows:
\* a list with, per column of b, None or a bool vector of length cols(a).
solve_bind(a_, b_) ==
    LET n == a_.shape[2]
        k == b_.shape[2]
        sol == SolveRows(BitRows(a_, b_), n, k)
    IN  [j \in 1..k |->
            IF sol[j - 1].some
            THEN [some |-> TRUE, x |-> [c \in 1..n |-> IF (c - 1) \in sol[j - 1].x THEN 1 ELSE 0]]
            ELSE [some |-> FALSE, x |-> <<>>]]

\* b.reshape(1, -1) of a 1-D array: a row instead of a column
AsColumn_AsRow(arr) == [arr EXCEPT !.shape = <<1, arr.shape[1]>>]

\* b.reshape(-1, 1) of a 1-D array
AsColumn(arr) == [arr EXCEPT !.shape = <<arr.shape[1], 1>>]

\* solver.solve
solve(a_, b_) ==
    LET ca == arraycheck(a_)
        cb == arraycheck(b_)
        b2 == IF Len(cb.arr.shape) = 1 THEN AsColumn(cb.arr) ELSE cb.arr
    IN  IF ca.err # NoError THEN SolveRaised(ca.err.exc, ca.err.msg)
        ELSE IF cb.err # NoError THEN SolveRaised(cb.err.exc, cb.err.msg)
        ELSE IF Len(ca.arr.shape) # 2 THEN SolveRaised("ValueError", "a must be a 2D array.")
        ELSE IF Len(b2.shape) # 2
        THEN SolveRaised("ValueError", "b must be a 2D array or a 1D vector.")
        ELSE IF b2.shape[1] # ca.arr.shape[1]
        THEN SolveRaised("ValueError", "Inconsistent number of rows in a and b.")
        ELSE SolveReturned(solve_bind(ca.arr, b2))

----------------------------------------------------------------------------
(* Causal-flow finder of the core (section 4.D), fastflow._impl.flow.find  *)
(*                                                                         *)
(* Step 1 of section 4.D words the input restriction as "u not in I".  The *)
(* contract of the same section (f : V\O -> V\I) and the expected values   *)
(* of CASE1 / CASE2 in src/tests/assets.py, where input vertices are in    *)
(* dom(f), put it on the corrector: an input is never a corrector.  The    *)
(* model follows the contract and the assets.                              *)

\* The correctors that claim u this round: non-input correctors whose only
\* neighbour outside solved is u.
Claimers(g_, iset_, st, u) ==
    {c \in st.correctors \ iset_ : g_[c] \ st.solved = {u}}

\* A round that numbers the vertices it solves one layer ahead
FlowRound_LayerAhead(g_, iset_, st) ==
    LET paired == {u \in (DOMAIN g_) \ st.solved : Claimers(g_, iset_, st, u) # {}}
        keep == [u \in paired |-> Min(Claimers(g_, iset_, st, u))]
    IN  [solved |-> st.solved \cup paired,
         correctors |-> (st.correctors \ {keep[u] : u \in paired}) \cup paired,
         f |-> [u \in (DOMAIN st.f) \cup paired |-> IF u \in paired THEN keep[u] ELSE st.f[u]],
         layer |-> [v \in DOMAIN g_ |-> IF v \in paired THEN st.l + 1 ELSE st.layer[v]],
         l |-> st.l + 1]

\* Steps 1-3 of one round: the pairings kept (smallest corrector index wins),
\* f and layer updated, solved and correctors extended, the layer number advanced.
FlowRound(g_, iset_, st) ==
    LET paired == {u \in (DOMAIN g_) \ st.solved : Claimers(g_, iset_, st, u) # {}}
        keep == [u \in paired |-> Min(Claimers(g_, iset_, st, u))]
    IN  [solved |-> st.solved \cup paired,
         correctors |-> (st.correctors \ {keep[u] : u \in paired}) \cup paired,
         f |-> [u \in (DOMAIN st.f) \cup paired |-> IF u \in paired THEN keep[u] ELSE st.f[u]],
         layer |-> [v \in DOMAIN g_ |-> IF v \in paired THEN st.l ELSE st.layer[v]],
         l |-> st.l + 1]

\* Step 4: stop at the first round that makes no pairing.
RECURSIVE FlowLoop(_, _, _)
FlowLoop(g_, iset_, st) ==
    LET nxt == FlowRound(g_, iset_, st)
    IN  IF nxt.solved = st.solved THEN st ELSE FlowLoop(g_, iset_, nxt)

\* A start that numbers the first layer of measured vertices 2
FlowStart_Late(g_, oset_) ==
    [solved |-> oset_, correctors |-> oset_, f |-> <<>>,
     layer |-> [v \in DOMAIN g_ |-> 0], l |-> 2]

FlowStart(g_, oset_) ==
    [solved |-> oset_, correctors |-> oset_, f |-> <<>>,
     layer |-> [v \in DOMAIN g_ |-> 0], l |-> 1]

\* The loop state before the finder has started
NoLoop == [solved |-> {}, correctors |-> {}, f |-> <<>>, layer |-> <<>>, l |-> 0]

\* success iff solved = V
FlowOutcome(g_, fin) ==
    IF fin.solved = DOMAIN g_
    THEN [found |-> TRUE, f |-> fin.f, layer |-> fin.layer]
    ELSE [found |-> FALSE, f |-> <<>>, layer |-> <<>>]

flow_bind_find(g_, iset_, oset_) ==
    FlowOutcome(g_, FlowLoop(g_, iset_, FlowStart(g_, oset_)))

----------------------------------------------------------------------------
(* Verifier of the core (section 4.G, diagnostics of section 6)            *)
(* A witness is checked condition by condition; the first failing          *)
(* condition gives the diagnostic, on its smallest offending index.        *)

Ok == [ok |-> TRUE, kind |-> "Ok", nodes |-> <<>>]

Diag(kind, nodes) == [ok |-> FALSE, kind |-> kind, nodes |-> nodes]

\* Condition 1: layer[v] = 0 <=> v in O
BadInitial(layer_, oset_) ==
    {v \in DOMAIN layer_ : (v \in oset_) # (layer_[v] = 0)}

\* Condition 2, domain: dom(f) = V \ O
BadDomain(F, n, oset_) ==
    {u \in 0..(n - 1) : (u \in DOMAIN F) # (u \notin oset_)}

\* Condition 2, codomain: f(u) inside V \ I
BadCodomain(F, n, iset_) ==
    {u \in DOMAIN F : ~(F[u] \subseteq ((0..(n - 1)) \ iset_))}

\* Condition 3: layer[u] > layer[v] for v in f(u) \cup Odd(f(u)), v # u
BadOrder(F, layer_, g_) ==
    {p \in (DOMAIN F) \X (DOMAIN g_) :
        /\ p[2] # p[1]
        /\ p[2] \in F[p[1]] \cup Odd(g_, F[p[1]])
        /\ ~(layer_[p[1]] > layer_[p[2]])}

\* Condition 4: the relation of the label of u between u, f(u) and Odd(f(u)).
\* XY, YZ, ZX as in the table of section 4.E, read at u.  For the Pauli
\* labels the table of section 4.F is contradicted by the witnesses that
\* src/tests/assets.py expects (CASE7: f(0) = {0} under Z, f(2) = {2} with
\* 2 not in Odd(f(2)) under Y); the relations the assets satisfy are used:
\* X: u in Odd(f(u)); Z: u in f(u); Y: exactly one of the two.
LabelHolds(lab, u, fu, oddfu) ==
    CASE lab = XY -> u \notin fu /\ u \in oddfu
      [] lab = YZ -> u \in fu /\ u \notin oddfu
      [] lab = ZX -> u \in fu /\ u \in oddfu
      [] lab = PX -> u \in oddfu
      [] lab = PY -> (u \in fu) # (u \in oddfu)
      [] lab = PZ -> u \in fu

BadLabel(F, g_, lab_) ==
    {u \in (DOMAIN F) \cap (DOMAIN lab_) : ~LabelHolds(lab_[u], u, F[u], Odd(g_, F[u]))}

\* A vertex of V \ O without a label, or a label outside V \ O
BadSpec(n, oset_, lab_) ==
    {u \in 0..(n - 1) : (u \in DOMAIN lab_) # (u \notin oset_)}

VerifyCore(F, layer_, g_, iset_, oset_, lab_, planekind) ==
    LET n == Cardinality(DOMAIN g_)
        b1 == BadInitial(layer_, oset_)
        b2 == BadDomain(F, n, oset_)
        b3 == BadCodomain(F, n, iset_)
        b4 == BadSpec(n, oset_, lab_)
        b5 == BadOrder(F, layer_, g_)
        b6 == BadLabel(F, g_, lab_)
    IN  IF b1 # {}
        THEN (IF Min(b1) \in oset_
              THEN Diag("ExcessiveNonZeroLayer", <<Min(b1)>>)
              ELSE Diag("ExcessiveZeroLayer", <<Min(b1)>>))
        ELSE IF b2 # {} THEN Diag("InvalidFlowDomain", <<Min(b2)>>)
        ELSE IF b3 # {} THEN Diag("InvalidFlowCodomain", <<Min(b3)>>)
        ELSE IF b4 # {} THEN Diag("InvalidMeasurementSpec", <<Min(b4)>>)
        ELSE IF b5 # {}
        THEN (LET u == Min({p[1] : p \in b5})
              IN  Diag("InconsistentFlowOrder", <<u, Min({p[2] : p \in {q \in b5 : q[1] = u}})>>))
        ELSE IF b6 # {} THEN Diag(planekind, <<Min(b6)>>)
        ELSE Ok

\* fastflow._impl.flow.verify : a causal flow is checked as the gflow
\* u |-> {f(u)} with every non-output vertex labelled XY.
flow_bind_verify(f_, layer_, g_, iset_, oset_) ==
    VerifyCore([u \in DOMAIN f_ |-> {f_[u]}], layer_, g_, iset_, oset_,
               [u \in (DOMAIN g_) \ oset_ |-> XY], "InconsistentFlowPlane")

----------------------------------------------------------------------------
(* Generalized-flow finder of the core (section 4.E), _impl.gflow.find     *)

\* the elements of a set of indices in ascending order
Sorted(S) == [k \in 1..Cardinality(S) |-> CHOOSE e \in S : Cardinality({d \in S : d < e}) = k - 1]

\* The target pattern of u on the unsolved rows, with u itself moved to the
\* right-hand side when its plane puts u in f(u):
\*   XY: Odd(f(u)) = {u}, u not in f(u);  YZ: Odd(f(u)) = {}, u in f(u);
\*   ZX: Odd(f(u)) = {u}, u in f(u).
GflowRhs(g_, lab, u) ==
    CASE lab = XY -> {u}
      [] lab = YZ -> g_[u]
      [] lab = ZX -> g_[u] \cup {u}

\* One layer step: rows = the unsolved vertices, columns = the solved vertices
\* of the codomain V \ I, one right-hand side per unsolved vertex, one solve.
GflowRound(g_, iset_, lab_, st) ==
    LET unsolved == (DOMAIN g_) \ st.solved
        rowseq == Sorted(unsolved)
        colseq == Sorted(st.solved \ iset_)
        rows == [i \in 1..Len(rowseq) |->
                    [a |-> {c \in 0..(Len(colseq) - 1) : colseq[c + 1] \in g_[rowseq[i]]},
                     b |-> {j \in 0..(Len(rowseq) - 1) :
                               rowseq[i] \in GflowRhs(g_, lab_[rowseq[j + 1]], rowseq[j + 1])}]]
        sol == SolveRows(rows, Len(colseq), Len(rowseq))
        \* u in f(u) needs u in the codomain V \ I
        new == {j \in 0..(Len(rowseq) - 1) :
                   sol[j].some /\ (lab_[rowseq[j + 1]] = XY \/ rowseq[j + 1] \notin iset_)}
        newset == {rowseq[j + 1] : j \in new}
        fu == [u \in newset |->
                  LET j == CHOOSE k \in new : rowseq[k + 1] = u
                  IN  {colseq[c + 1] : c \in sol[j].x} \cup (IF lab_[u] = XY THEN {} ELSE {u})]
    IN  [solved |-> st.solved \cup newset,
         f |-> [u \in (DOMAIN st.f) \cup newset |-> IF u \in newset THEN fu[u] ELSE st.f[u]],
         layer |-> [v \in DOMAIN g_ |-> IF v \in newset THEN st.l ELSE st.layer[v]],
         l |-> st.l + 1]

RECURSIVE GflowLoop(_, _, _, _)
GflowLoop(g_, iset_, lab_, st) ==
    IF st.solved = DOMAIN g_ THEN st
    ELSE LET nxt == GflowRound(g_, iset_, lab_, st)
         IN  IF nxt.solved = st.solved THEN st ELSE GflowLoop(g_, iset_, lab_, nxt)

GflowStart(g_, oset_) ==
    [solved |-> oset_, f |-> <<>>, layer |-> [v \in DOMAIN g_ |-> 0], l |-> 1]

gflow_bind_find(g_, iset_, oset_, plane_) ==
    LET fin == GflowLoop(g_, iset_, plane_, GflowStart(g_, oset_))
    IN  IF fin.solved = DOMAIN g_
        THEN [found |-> TRUE, f |-> fin.f, layer |-> fin.layer]
        ELSE [found |-> FALSE, f |-> <<>>, layer |-> <<>>]

gflow_bind_verify(f_, layer_, g_, iset_, oset_, plane_) ==
    VerifyCore(f_, layer_, g_, iset_, oset_, plane_, "InconsistentFlowPlane")

----------------------------------------------------------------------------
(* Pauli-flow finder of the core (section 4.F), _impl.pflow.find           *)
(*                                                                         *)
(* Section 4.F leaves the systems to the implementation.  The model is the *)
(* layered search that yields the witnesses src/tests/assets.py expects    *)
(* (CASE6, CASE7, CASE8):                                                  *)
(*  - round 0 runs before the outputs are available as correctors, so a    *)
(*    vertex corrected by X / Y-measured vertices alone gets layer 0;      *)
(*  - X / Y-measured vertices are candidate correctors before being        *)
(*    solved, Y / Z-measured vertices put no constraint on Odd(f(u)),      *)
(*    an unsolved Y-measured y must have y in f(u) <=> y in Odd(f(u));     *)
(*  - per vertex the branches are tried in the order XY, YZ, ZX;           *)
(*  - a Pauli-measured input may be in its own correction set (CASE7:      *)
(*    f(0) = {0} with 0 an input), a plane-measured input may not.         *)

LabelSet(lab_, labels) == {v \in DOMAIN lab_ : lab_[v] \in labels}

\* the labels that admit each branch
BranchLabels(br) ==
    CASE br = 0 -> {XY, PX, PY}
      [] br = 1 -> {YZ, PY, PZ}
      [] br = 2 -> {ZX, PZ, PX}

\* The first branch, in the order XY, YZ, ZX, that the label of u admits and
\* that has a solution; a plane-measured input is not put in its own set.
PflowPick(iset_, lab_, u, colseq, sol) ==
    LET allowed == {br \in 0..2 :
                       /\ lab_[u] \in BranchLabels(br)
                       /\ sol[br].some
                       /\ (br = 0 \/ lab_[u] \in {PX, PY, PZ} \/ u \notin iset_)}
    IN  IF allowed = {} THEN [some |-> FALSE, fu |-> {}]
        ELSE [some |-> TRUE,
              fu |-> {colseq[c + 1] : c \in sol[Min(allowed)].x}
                         \cup (IF Min(allowed) = 0 THEN {} ELSE {u})]

\* The rows of the system of u over the columns colseq: the rows P_u, the row
\* of u, the rows Y_u; B-columns 0, 1, 2 are the branches XY, YZ, ZX.
PflowRows(g_, u, colseq, pseq, yseq) ==
    [i \in 1..Len(pseq) |->
        [a |-> {c \in 0..(Len(colseq) - 1) : colseq[c + 1] \in g_[pseq[i]]},
         b |-> IF u \in g_[pseq[i]] THEN {1, 2} ELSE {}]]
    \o <<[a |-> {c \in 0..(Len(colseq) - 1) : colseq[c + 1] \in g_[u]}, b |-> {0, 2}]>>
    \o [i \in 1..Len(yseq) |->
           [a |-> {c \in 0..(Len(colseq) - 1) :
                      (colseq[c + 1] \in g_[yseq[i]]) # (colseq[c + 1] = yseq[i])},
            b |-> IF u \in g_[yseq[i]] THEN {1, 2} ELSE {}]]

PflowSystem(g_, iset_, lab_, u, colseq, pseq, yseq) ==
    PflowPick(iset_, lab_, u, colseq,
              SolveRows(PflowRows(g_, u, colseq, pseq, yseq), Len(colseq), 3))

\* The system of u: columns K_u, rows P_u, u and Y_u, and one right-hand side
\* per branch (0: XY, 1: YZ, 2: ZX).
PflowSolve(g_, iset_, lab_, st, u) ==
    PflowSystem(g_, iset_, lab_, u,
                Sorted(((st.avail \cup LabelSet(lab_, {PX, PY})) \ iset_) \ {u}),
                Sorted(((DOMAIN g_) \ (st.avail \cup LabelSet(lab_, {PY, PZ}))) \ {u}),
                Sorted((LabelSet(lab_, {PY}) \ st.avail) \ {u}))

\* The state after a round that solved the vertices of res with a solution
PflowApply(g_, oset_, st, res) ==
    LET newset == {u \in DOMAIN res : res[u].some}
    IN  [done |-> st.done \cup newset,
         avail |-> st.avail \cup newset \cup oset_,
         f |-> [u \in (DOMAIN st.f) \cup newset |-> IF u \in newset THEN res[u].fu ELSE st.f[u]],
         layer |-> [v \in DOMAIN g_ |-> IF v \in newset THEN st.l ELSE st.layer[v]],
         l |-> st.l + 1]

PflowRound(g_, iset_, oset_, lab_, st) ==
    PflowApply(g_, oset_, st,
               [u \in ((DOMAIN g_) \ oset_) \ st.done |-> PflowSolve(g_, iset_, lab_, st, u)])

\* the loop runs round 0 unconditionally and stops at the first later round
\* that solves nothing
RECURSIVE PflowLoop(_, _, _, _, _)
PflowNext(g_, iset_, oset_, lab_, st, nxt) ==
    IF st.l > 0 /\ nxt.done = st.done THEN st
    ELSE PflowLoop(g_, iset_, oset_, lab_, nxt)

PflowLoop(g_, iset_, oset_, lab_, st) ==
    PflowNext(g_, iset_, oset_, lab_, st, PflowRound(g_, iset_, oset_, lab_, st))

PflowStart(g_) ==
    [done |-> {}, avail |-> {}, f |-> <<>>, layer |-> [v \in DOMAIN g_ |-> 0], l |-> 0]

\* Success iff every measured vertex is solved
PflowResult(fin, measured) ==
    IF fin.done = measured
    THEN [found |-> TRUE, f |-> fin.f, layer |-> fin.layer]
    ELSE [found |-> FALSE, f |-> <<>>, layer |-> <<>>]

pflow_bind_find(g_, iset_, oset_, pplane_) ==
    PflowResult(PflowLoop(g_, iset_, oset_, pplane_, PflowStart(g_)), (DOMAIN g_) \ oset_)

pflow_bind_verify(f_, layer_, g_, iset_, oset_, pplane_) ==
    VerifyCore(f_, layer_, g_, iset_, oset_, pplane_, "InconsistentFlowPPlane")

----------------------------------------------------------------------------
(* _common.py : argument checks *)

Nodes(gr) == SeqToSet(gr.order)

\* nx.selfloop_edges(g): an edge from a node to itself is the 1-set {v}
SelfLoops(gr) == {e \in gr.edges : Cardinality(e) = 1}

\* check_graph that looks at the graph before the classes of iset and oset
check_graph_GraphFirst(gr, is, os, ty) ==
    IF ty.g # "Graph" THEN Raise("TypeError", "g must be a networkx.Graph.")
    ELSE IF Len(gr.order) = 0 THEN Raise("ValueError", "Graph is empty.")
    ELSE IF SelfLoops(gr) # {} THEN Raise("ValueError", "Self-loop detected.")
    ELSE IF ty.iset # "set" THEN Raise("TypeError", "iset must be a set.")
    ELSE IF ty.oset # "set" THEN Raise("TypeError", "oset must be a set.")
    ELSE IF ~(is \subseteq Nodes(gr)) THEN Raise("ValueError", "iset must be a subset of the nodes.")
    ELSE IF ~(os \subseteq Nodes(gr)) THEN Raise("ValueError", "oset must be a subset of the nodes.")
    ELSE NoError

check_graph(gr, is, os, ty) ==
    IF ty.g # "Graph" THEN Raise("TypeError", "g must be a networkx.Graph.")
    ELSE IF ty.iset # "set" THEN Raise("TypeError", "iset must be a set.")
    ELSE IF ty.oset # "set" THEN Raise("TypeError", "oset must be a set.")
    ELSE IF Len(gr.order) = 0 THEN Raise("ValueError", "Graph is empty.")
    ELSE IF SelfLoops(gr) # {} THEN Raise("ValueError", "Self-loop detected.")
    ELSE IF ~(is \subseteq Nodes(gr)) THEN Raise("ValueError", "iset must be a subset of the nodes.")
    ELSE IF ~(os \subseteq Nodes(gr)) THEN Raise("ValueError", "oset must be a subset of the nodes.")
    ELSE NoError

\* A plane / pplane argument is [kind, map]: kind "none" is None, "mapping" a
\* Mapping with the entries of map, anything else is not a Mapping.
NoPlike == [kind |-> "none", map |-> <<>>]

AsMapping(m) == [kind |-> "mapping", map |-> m]

\* check_planelike without its last check: a label on an output passes
check_planelike_NoExcess(vset, os, pl) ==
    IF pl.kind # "mapping"
    THEN Raise("TypeError", "Measurement planes must be passed as a mapping.")
    ELSE IF ~((DOMAIN pl.map) \subseteq vset)
    THEN Raise("ValueError", "Cannot find corresponding nodes in the graph.")
    ELSE IF ~((vset \ os) \subseteq (DOMAIN pl.map))
    THEN Raise("ValueError", "Measurement planes should be specified for all u in V\\O.")
    ELSE NoError

check_planelike(vset, os, pl) ==
    IF pl.kind # "mapping"
    THEN Raise("TypeError", "Measurement planes must be passed as a mapping.")
    ELSE IF ~((DOMAIN pl.map) \subseteq vset)
    THEN Raise("ValueError", "Cannot find corresponding nodes in the graph.")
    ELSE IF ~((vset \ os) \subseteq (DOMAIN pl.map))
    THEN Raise("ValueError", "Measurement planes should be specified for all u in V\\O.")
    ELSE IF ~((DOMAIN pl.map) \subseteq (vset \ os))
    THEN Raise("ValueError", "Excessive measurement planes specified.")
    ELSE NoError

\* dict.fromkeys(vset, XY): the outputs labelled too
DefaultPlike_All(vset, os) == AsMapping([v \in vset |-> XY])

\* dict.fromkeys(vset - oset, XY)
DefaultPlike(vset, os) == AsMapping([v \in vset \ os |-> XY])

----------------------------------------------------------------------------
(* flow.py, gflow.py, pflow.py : the entry points *)

\* What a find call does: raise, or return None (found = FALSE) or a result.
Raised(err) ==
    [exc |-> err.exc, msg |-> err.msg, found |-> FALSE, f |-> <<>>, layer |-> <<>>, warned |-> {}]

Returned(found, f, layer, warned) ==
    [exc |-> "none", msg |-> "", found |-> found, f |-> f, layer |-> layer, warned |-> warned]

NoCall == Returned(FALSE, <<>>, <<>>, {})

\* flow.find with the input set and the output set passed to the core in each
\* other's place
flow_find_Swapped(gr, is, os, ty) ==
    IF check_graph(gr, is, os, ty) # NoError THEN Raised(check_graph(gr, is, os, ty))
    ELSE LET codec == IndexMap(gr.order)
             ret_ == flow_bind_find(encode_graph(codec, gr), encode_set(codec, os),
                                    encode_set(codec, is))
         IN  IF ret_.found
             THEN Returned(TRUE, decode_flow(codec, ret_.f), decode_layer(codec, ret_.layer), {})
             ELSE Returned(FALSE, <<>>, <<>>, {})

\* flow.find that takes a vertex in both I and O for an input only
flow_find_SharedAsInput(gr, is, os, ty) ==
    IF check_graph(gr, is, os, ty) # NoError THEN Raised(check_graph(gr, is, os, ty))
    ELSE LET codec == IndexMap(gr.order)
             ret_ == flow_bind_find(encode_graph(codec, gr), encode_set(codec, is),
                                    encode_set(codec, os \ is))
         IN  IF ret_.found
             THEN Returned(TRUE, decode_flow(codec, ret_.f), decode_layer(codec, ret_.layer), {})
             ELSE Returned(FALSE, <<>>, <<>>, {})

\* flow.find
flow_find(gr, is, os, ty) ==
    IF check_graph(gr, is, os, ty) # NoError THEN Raised(check_graph(gr, is, os, ty))
    ELSE LET codec == IndexMap(gr.order)
             ret_ == flow_bind_find(encode_graph(codec, gr), encode_set(codec, is),
                                    encode_set(codec, os))
         IN  IF ret_.found
             THEN Returned(TRUE, decode_flow(codec, ret_.f), decode_layer(codec, ret_.layer), {})
             ELSE Returned(FALSE, <<>>, <<>>, {})

\* What a verify call does: return (exc = "none") or raise ValueError with the
\* core's diagnostic; decoded tells whether the nodes of the diagnostic were
\* mapped back to node identities.
VerifyOk == [exc |-> "none", msg |-> "", diag |-> Ok, decoded |-> FALSE]

VerifyRaised(err) == [exc |-> err.exc, msg |-> err.msg, diag |-> Ok, decoded |-> FALSE]

VerifyFailed(d, decoded) == [exc |-> "ValueError", msg |-> d.kind, diag |-> d, decoded |-> decoded]

NoVerdict == [exc |-> "none", msg |-> "", diag |-> Ok, decoded |-> FALSE]

\* IndexMap.decode_err : the nodes of the diagnostic decoded
decode_err(codec, d) == [d EXCEPT !.nodes = [k \in 1..Len(d.nodes) |-> decode(codec, d.nodes[k])]]

\* flow.verify with the input set and the output set passed to the core in each
\* other's place
flow_verify_Swapped(w, gr, is, os, ty) ==
    IF check_graph(gr, is, os, ty) # NoError THEN VerifyRaised(check_graph(gr, is, os, ty))
    ELSE LET codec == IndexMap(gr.order)
             d == flow_bind_verify(encode_flow(codec, w.f), encode_layer(codec, w.layer),
                                   encode_graph(codec, gr), encode_set(codec, os),
                                   encode_set(codec, is))
         IN  IF d.ok THEN VerifyOk ELSE VerifyFailed(d, FALSE)

\* flow.verify : the core's error is not caught
flow_verify(w, gr, is, os, ty) ==
    IF check_graph(gr, is, os, ty) # NoError THEN VerifyRaised(check_graph(gr, is, os, ty))
    ELSE LET codec == IndexMap(gr.order)
             d == flow_bind_verify(encode_flow(codec, w.f), encode_layer(codec, w.layer),
                                   encode_graph(codec, gr), encode_set(codec, is),
                                   encode_set(codec, os))
         IN  IF d.ok THEN VerifyOk ELSE VerifyFailed(d, FALSE)

\* gflow.find
gflow_find(gr, is, os, ty, pl) ==
    IF check_graph(gr, is, os, ty) # NoError THEN Raised(check_graph(gr, is, os, ty))
    ELSE LET vset == Nodes(gr)
             plane == IF pl.kind = "none" THEN DefaultPlike(vset, os) ELSE pl
         IN  IF check_planelike(vset, os, plane) # NoError
             THEN Raised(check_planelike(vset, os, plane))
             ELSE LET ignore == (DOMAIN plane.map) \cap os
                      warned == IF ignore # {} THEN {"Ignoring plane[v] where v in oset."} ELSE {}
                      kept == [k \in (DOMAIN plane.map) \ ignore |-> plane.map[k]]
                      codec == IndexMap(gr.order)
                      ret_ == gflow_bind_find(encode_graph(codec, gr), encode_set(codec, is),
                                              encode_set(codec, os), encode_dictkey(codec, kept))
                  IN  IF ret_.found
                      THEN Returned(TRUE, decode_gflow(codec, ret_.f),
                                    decode_layer(codec, ret_.layer), warned)
                      ELSE Returned(FALSE, <<>>, <<>>, warned)

\* codec.encode_dictkey(plane) on a label argument that was not checked:
\* plane.items() of something that is no mapping, encode of a key that is no
\* node
encode_dictkey_err(vset, pl) ==
    IF pl.kind # "mapping" THEN Raise("AttributeError", "object has no attribute 'items'")
    ELSE IF ~((DOMAIN pl.map) \subseteq vset) THEN Raise("ValueError", "not found.")
    ELSE NoError

\* gflow.verify : no check_planelike, the core's error is not caught
gflow_verify(w, gr, is, os, ty, pl) ==
    IF check_graph(gr, is, os, ty) # NoError THEN VerifyRaised(check_graph(gr, is, os, ty))
    ELSE LET vset == Nodes(gr)
             plane == IF pl.kind = "none" THEN DefaultPlike(vset, os) ELSE pl
             codec == IndexMap(gr.order)
         IN  IF encode_dictkey_err(vset, plane) # NoError
             THEN VerifyRaised(encode_dictkey_err(vset, plane))
             ELSE LET d == gflow_bind_verify(encode_gflow(codec, w.f),
                                             encode_layer(codec, w.layer),
                                             encode_graph(codec, gr), encode_set(codec, is),
                                             encode_set(codec, os),
                                             encode_dictkey(codec, plane.map))
                  IN  IF d.ok THEN VerifyOk ELSE VerifyFailed(d, FALSE)

\* pflow.find
pflow_find(gr, is, os, ty, pl) ==
    IF check_graph(gr, is, os, ty) # NoError THEN Raised(check_graph(gr, is, os, ty))
    ELSE LET vset == Nodes(gr)
             pplane == IF pl.kind = "none" THEN DefaultPlike(vset, os) ELSE pl
         IN  IF check_planelike(vset, os, pplane) # NoError
             THEN Raised(check_planelike(vset, os, pplane))
             ELSE LET warned == IF \A k \in DOMAIN pplane.map : pplane.map[k] \notin {PX, PY, PZ}
                                THEN {"No Pauli measurement found. Use gflow.find instead."}
                                ELSE {}
                      codec == IndexMap(gr.order)
                      ret_ == pflow_bind_find(encode_graph(codec, gr), encode_set(codec, is),
                                              encode_set(codec, os),
                                              encode_dictkey(codec, pplane.map))
                  IN  IF ret_.found
                      THEN Returned(TRUE, decode_gflow(codec, ret_.f),
                                    decode_layer(codec, ret_.layer), warned)
                      ELSE Returned(FALSE, <<>>, <<>>, warned)

\* pflow.verify : the core's error is decoded with IndexMap.decode_err
pflow_verify(w, gr, is, os, ty, pl) ==
    IF check_graph(gr, is, os, ty) # NoError THEN VerifyRaised(check_graph(gr, is, os, ty))
    ELSE LET vset == Nodes(gr)
             pplane == IF pl.kind = "none" THEN DefaultPlike(vset, os) ELSE pl
             codec == IndexMap(gr.order)
         IN  IF encode_dictkey_err(vset, pplane) # NoError
             THEN VerifyRaised(encode_dictkey_err(vset, pplane))
             ELSE LET d == pflow_bind_verify(encode_gflow(codec, w.f),
                                             encode_layer(codec, w.layer),
                                             encode_graph(codec, gr), encode_set(codec, is),
                                             encode_set(codec, os),
                                             encode_dictkey(codec, pplane.map))
                  IN  IF d.ok THEN VerifyOk ELSE VerifyFailed(decode_err(codec, d), TRUE)

----------------------------------------------------------------------------
(* tests/assets.py : the open graphs of the test suite with the results    *)
(* test_flow_graphix, test_gflow_graphix and test_pflow_graphix expect     *)

\* nx.Graph(edge list): the nodes are inserted in the order the edge list
\* first names them
RECURSIVE FirstSeen(_, _)
FirstSeen(edgelist, acc) ==
    IF edgelist = <<>> THEN acc
    ELSE LET e == Head(edgelist)
             a1 == IF e[1] \in SeqToSet(acc) THEN acc ELSE Append(acc, e[1])
             a2 == IF e[2] \in SeqToSet(a1) THEN a1 ELSE Append(a1, e[2])
         IN  FirstSeen(Tail(edgelist), a2)

NxGraph(edgelist) ==
    [order |-> FirstSeen(edgelist, <<>>),
     edges |-> {{edgelist[k][1], edgelist[k][2]} : k \in 1..Len(edgelist)}]

Found(found, f, layer) == [found |-> found, f |-> f, layer |-> layer]

CASE0 ==
    [g |-> NxGraph(<<<<1, 2>>>>),
     iset |-> {1, 2}, oset |-> {1, 2},
     plane |-> NoPlike,
     pplane |-> NoPlike,
     flow |-> Found(TRUE, <<>>, (1 :> 0 @@ 2 :> 0)),
     gflow |-> Found(TRUE, <<>>, (1 :> 0 @@ 2 :> 0)),
     pflow |-> Found(TRUE, <<>>, (1 :> 0 @@ 2 :> 0))]

CASE1 ==
    [g |-> NxGraph(<<<<1, 2>>, <<2, 3>>, <<3, 4>>, <<4, 5>>>>),
     iset |-> {1}, oset |-> {5},
     plane |-> NoPlike,
     pplane |-> NoPlike,
     flow |-> Found(TRUE, (1 :> 2 @@ 2 :> 3 @@ 3 :> 4 @@ 4 :> 5), (1 :> 4 @@ 2 :> 3 @@ 3 :> 2 @@ 4 :> 1 @@ 5 :> 0)),
     gflow |-> Found(TRUE, (1 :> {2} @@ 2 :> {3} @@ 3 :> {4} @@ 4 :> {5}), (1 :> 4 @@ 2 :> 3 @@ 3 :> 2 @@ 4 :> 1 @@ 5 :> 0)),
     pflow |-> Found(TRUE, (1 :> {2} @@ 2 :> {3} @@ 3 :> {4} @@ 4 :> {5}), (1 :> 4 @@ 2 :> 3 @@ 3 :> 2 @@ 4 :> 1 @@ 5 :> 0))]

CASE2 ==
    [g |-> NxGraph(<<<<1, 3>>, <<2, 4>>, <<3, 5>>, <<4, 6>>>>),
     iset |-> {1, 2}, oset |-> {5, 6},
     plane |-> NoPlike,
     pplane |-> NoPlike,
     flow |-> Found(TRUE, (1 :> 3 @@ 2 :> 4 @@ 3 :> 5 @@ 4 :> 6), (1 :> 2 @@ 2 :> 2 @@ 3 :> 1 @@ 4 :> 1 @@ 5 :> 0 @@ 6 :> 0)),
     gflow |-> Found(TRUE, (1 :> {3} @@ 2 :> {4} @@ 3 :> {5} @@ 4 :> {6}), (1 :> 2 @@ 2 :> 2 @@ 3 :> 1 @@ 4 :> 1 @@ 5 :> 0 @@ 6 :> 0)),
     pflow |-> Found(TRUE, (1 :> {3} @@ 2 :> {4} @@ 3 :> {5} @@ 4 :> {6}), (1 :> 2 @@ 2 :> 2 @@ 3 :> 1 @@ 4 :> 1 @@ 5 :> 0 @@ 6 :> 0))]

CASE3 ==
    [g |-> NxGraph(<<<<1, 4>>, <<1, 6>>, <<2, 4>>, <<2, 5>>, <<2, 6>>, <<3, 5>>, <<3, 6>>>>),
     iset |-> {1, 2, 3}, oset |-> {4, 5, 6},
     plane |-> NoPlike,
     pplane |-> NoPlike,
     flow |-> Found(FALSE, <<>>, <<>>),
     gflow |-> Found(TRUE, (1 :> {5, 6} @@ 2 :> {4, 5, 6} @@ 3 :> {4, 6}), (1 :> 1 @@ 2 :> 1 @@ 3 :> 1 @@ 4 :> 0 @@ 5 :> 0 @@ 6 :> 0)),
     pflow |-> Found(TRUE, (1 :> {5, 6} @@ 2 :> {4, 5, 6} @@ 3 :> {4, 6}), (1 :> 1 @@ 2 :> 1 @@ 3 :> 1 @@ 4 :> 0 @@ 5 :> 0 @@ 6 :> 0))]

CASE4 ==
    [g |-> NxGraph(<<<<0, 1>>, <<0, 2>>, <<0, 4>>, <<1, 5>>, <<2, 4>>, <<2, 5>>, <<3, 5>>>>),
     iset |-> {0, 1}, oset |-> {4, 5},
     plane |-> AsMapping(0 :> XY @@ 1 :> XY @@ 2 :> ZX @@ 3 :> YZ),
     pplane |-> AsMapping(0 :> XY @@ 1 :> XY @@ 2 :> ZX @@ 3 :> YZ),
     flow |-> Found(FALSE, <<>>, <<>>),
     gflow |-> Found(TRUE, (0 :> {2} @@ 1 :> {5} @@ 2 :> {2, 4} @@ 3 :> {3}), (0 :> 2 @@ 1 :> 2 @@ 2 :> 1 @@ 3 :> 1 @@ 4 :> 0 @@ 5 :> 0)),
     pflow |-> Found(TRUE, (0 :> {2} @@ 1 :> {5} @@ 2 :> {2, 4} @@ 3 :> {3}), (0 :> 2 @@ 1 :> 2 @@ 2 :> 1 @@ 3 :> 1 @@ 4 :> 0 @@ 5 :> 0))]

CASE5 ==
    [g |-> NxGraph(<<<<1, 3>>, <<1, 4>>, <<2, 3>>, <<2, 4>>>>),
     iset |-> {1, 2}, oset |-> {3, 4},
     plane |-> NoPlike,
     pplane |-> NoPlike,
     flow |-> Found(FALSE, <<>>, <<>>),
     gflow |-> Found(FALSE, <<>>, <<>>),
     pflow |-> Found(FALSE, <<>>, <<>>)]

CASE6 ==
    [g |-> NxGraph(<<<<0, 1>>, <<1, 2>>, <<1, 4>>, <<2, 3>>>>),
     iset |-> {0}, oset |-> {4},
     plane |-> AsMapping(0 :> XY @@ 1 :> XY @@ 2 :> XY @@ 3 :> XY),
     pplane |-> AsMapping(0 :> XY @@ 1 :> PX @@ 2 :> XY @@ 3 :> PX),
     flow |-> Found(FALSE, <<>>, <<>>),
     gflow |-> Found(FALSE, <<>>, <<>>),
     pflow |-> Found(TRUE, (0 :> {1} @@ 1 :> {4} @@ 2 :> {3} @@ 3 :> {2, 4}), (0 :> 1 @@ 1 :> 1 @@ 2 :> 0 @@ 3 :> 1 @@ 4 :> 0))]

CASE7 ==
    [g |-> NxGraph(<<<<0, 1>>, <<0, 2>>, <<0, 4>>, <<3, 4>>>>),
     iset |-> {0}, oset |-> {4},
     plane |-> AsMapping(0 :> YZ @@ 1 :> ZX @@ 2 :> XY @@ 3 :> YZ),
     pplane |-> AsMapping(0 :> PZ @@ 1 :> PZ @@ 2 :> PY @@ 3 :> PY),
     flow |-> Found(FALSE, <<>>, <<>>),
     gflow |-> Found(FALSE, <<>>, <<>>),
     pflow |-> Found(TRUE, (0 :> {0} @@ 1 :> {1} @@ 2 :> {2} @@ 3 :> {4}), (0 :> 1 @@ 1 :> 0 @@ 2 :> 0 @@ 3 :> 1 @@ 4 :> 0))]

CASE8 ==
    [g |-> NxGraph(<<<<0, 1>>, <<0, 4>>, <<1, 2>>, <<1, 3>>, <<2, 3>>, <<2, 4>>, <<3, 4>>>>),
     iset |-> {0}, oset |-> {3, 4},
     plane |-> AsMapping(0 :> YZ @@ 1 :> ZX @@ 2 :> XY),
     pplane |-> AsMapping(0 :> PZ @@ 1 :> ZX @@ 2 :> PY),
     flow |-> Found(FALSE, <<>>, <<>>),
     gflow |-> Found(FALSE, <<>>, <<>>),
     pflow |-> Found(TRUE, (0 :> {0, 2, 4} @@ 1 :> {1, 2} @@ 2 :> {4}), (0 :> 1 @@ 1 :> 1 @@ 2 :> 1 @@ 3 :> 0 @@ 4 :> 0))]

CASES == <<CASE0, CASE1, CASE2, CASE3, CASE4, CASE5, CASE6, CASE7, CASE8>>

----------------------------------------------------------------------------
(* The calls *)

\* the graphs nx.Graph builds on the nodes 1..n, the nodes added in
\* ascending or in descending order
Pairs(n) == {{u, v} : u, v \in 1..n} \ {{u} : u \in 1..n}

SmallGraphs ==
    UNION {{[order |-> ord, edges |-> E] :
               ord \in {[k \in 1..n |-> k], [k \in 1..n |-> n + 1 - k]},
               E \in SUBSET Pairs(n)} : n \in 1..MaxNodes}

SmallInputs ==
    UNION {{[g |-> gr, iset |-> is, oset |-> os] :
               is \in SUBSET Nodes(gr), os \in SUBSET Nodes(gr)} : gr \in SmallGraphs}

AssetInputs == {[g |-> CASES[k].g, iset |-> CASES[k].iset, oset |-> CASES[k].oset] :
                   k \in 1..Len(CASES)}

GoodTypes == [g |-> "Graph", iset |-> "set", oset |-> "set"]

NoArray == [dtype |-> "bool", shape |-> <<>>, data |-> <<>>]

Init ==
    /\ \E inp \in SmallInputs \cup AssetInputs :
          /\ g = inp.g
          /\ iset = inp.iset
          /\ oset = inp.oset
    /\ tys = GoodTypes
    /\ plike = NoPlike
    /\ op = "init"
    /\ ret = NoCall
    /\ verdict = NoVerdict
    /\ a = NoArray
    /\ b = NoArray
    /\ x = NotSolved
    /\ loop = NoLoop
    /\ arg = 0
    /\ outcome = NotCalled

\* the test cases on the graph of the state
CasesHere == {k \in 1..Len(CASES) :
                 CASES[k].g = g /\ CASES[k].iset = iset /\ CASES[k].oset = oset}

\* No call has been made: the caller holds the arguments only ("init"), or
\* the arguments, a label argument and a FlowResult / GFlowResult to verify.
NoCallYet == op \in {"init", "FlowResult", "GFlowResult"}

\* The labels of a label argument are members of the enum
LabelsWithin(pl, labels) ==
    pl.kind = "mapping" => \A k \in DOMAIN pl.map : pl.map[k] \in labels

\* The label arguments tried.  From "init": None, every labelling of V \ O on
\* the small graphs, and on a graph of the test suite the labelling of its test
\* case.  Otherwise the label argument the caller holds, when its labels are
\* of the enum the entry point takes.
LabelArgs(labels, field) ==
    IF op = "init"
    THEN {NoPlike}
         \cup (IF Len(g.order) <= MaxNodes
               THEN {AsMapping(m) : m \in [Nodes(g) \ oset -> labels]} ELSE {})
         \cup {CASES[k][field] : k \in CasesHere}
    ELSE {pl \in {plike} : LabelsWithin(pl, labels)}

FlowFind ==
    /\ NoCallYet
    /\ op' = "flow.find"
    /\ ret' = flow_find(g, iset, oset, tys)
    /\ UNCHANGED <<g, iset, oset, tys, plike, verdict, a, b, x, loop, arg, outcome>>

FlowVerify ==
    /\ (op = "flow.find" /\ ret.found) \/ op = "FlowResult"
    /\ op' = "flow.verify"
    /\ verdict' = flow_verify(ret, g, iset, oset, tys)
    /\ UNCHANGED <<g, iset, oset, tys, plike, ret, a, b, x, loop, arg, outcome>>

GflowFind ==
    /\ NoCallYet
    /\ \E pl \in LabelArgs(Planes, "plane") :
          /\ plike' = pl
          /\ ret' = gflow_find(g, iset, oset, tys, pl)
    /\ op' = "gflow.find"
    /\ UNCHANGED <<g, iset, oset, tys, verdict, a, b, x, loop, arg, outcome>>

GflowVerify ==
    /\ (op = "gflow.find" /\ ret.found) \/ (op = "GFlowResult" /\ LabelsWithin(plike, Planes))
    /\ op' = "gflow.verify"
    /\ verdict' = gflow_verify(ret, g, iset, oset, tys, plike)
    /\ UNCHANGED <<g, iset, oset, tys, plike, ret, a, b, x, loop, arg, outcome>>

PflowFind ==
    /\ NoCallYet
    /\ \E pl \in LabelArgs(PPlanes, "pplane") :
          /\ plike' = pl
          /\ ret' = pflow_find(g, iset, oset, tys, pl)
    /\ op' = "pflow.find"
    /\ UNCHANGED <<g, iset, oset, tys, verdict, a, b, x, loop, arg, outcome>>

PflowVerify ==
    /\ (op = "pflow.find" /\ ret.found) \/ op = "GFlowResult"
    /\ op' = "pflow.verify"
    /\ verdict' = pflow_verify(ret, g, iset, oset, tys, plike)
    /\ UNCHANGED <<g, iset, oset, tys, plike, ret, a, b, x, loop, arg, outcome>>

Next ==
    \/ FlowFind
    \/ FlowVerify
    \/ GflowFind
    \/ GflowVerify
    \/ PflowFind
    \/ PflowVerify

Spec == Init /\ [][Next]_vars

----------------------------------------------------------------------------
(* The finders return what the test suite expects (tests/test_flow.py,     *)
(* test_gflow.py, test_pflow.py on tests/assets.py)                        *)

AsFound(r) == Found(r.found, r.f, r.layer)

AssetsAgree ==
    \A k \in CasesHere :
        /\ op = "flow.find" => AsFound(ret) = CASES[k].flow
        /\ (op = "gflow.find" /\ plike = CASES[k].plane) => AsFound(ret) = CASES[k].gflow
        /\ (op = "pflow.find" /\ plike = CASES[k].pplane) => AsFound(ret) = CASES[k].pflow

----------------------------------------------------------------------------------------------------------------------------------------
(* The solver calls (tests/test_solver.py, tests/utils.py) *)

NoGraph == [order |-> <<>>, edges |-> {}]

\* Every array of the dtype and shape with entries in vals
ArraysOf(dtype, shape, vals) ==
    LET size == IF Len(shape) = 1 THEN shape[1]
                ELSE IF Len(shape) = 2 THEN shape[1] * shape[2]
                ELSE shape[1] * shape[2] * shape[3]
    IN  {[dtype |-> dtype, shape |-> shape, data |-> d] : d \in [1..size -> vals]}

\* utils.iter_bmatrix : every binary matrix of the shape
Matrices(dtype, m, n) == ArraysOf(dtype, <<m, n>>, {0, 1})

\* bit i of c
Bit(c, i) == (c \div (2 ^ i)) % 2

\* test_all : b = np.stack(list(iter_bvector(m)), axis=-1), every vector of
\* length m as a column, column c holding the bits of c
AllVectors(dtype, m) ==
    [dtype |-> dtype, shape |-> <<m, 2 ^ m>>,
     data |-> [k \in 1..(m * (2 ^ m)) |-> Bit((k - 1) % (2 ^ m), (k - 1) \div (2 ^ m))]]

\* Arguments the tests and the example pass: a bool matrix with every
\* right-hand side at once (test_all), or an integer matrix with one
\* right-hand side as a 1-D vector (test_1d, test_no_sol, examples/solver.py).
WellShaped(a_, b_) ==
    \E m \in 1..MaxRows, n \in 1..MaxCols :
        \/ a_ \in Matrices("bool", m, n) /\ b_ = AllVectors("bool", m)
        \/ a_ \in Matrices("int", m, n) /\ b_ \in ArraysOf("int", <<m>>, {0, 1})

\* Arguments solver.solve rejects (test_solver.py: test_bad_type, test_bad_value,
\* test_bad_shape).
IllShaped ==
    LET good == ArraysOf("bool", <<1, 1>>, {0, 1})
        bada == ArraysOf("float", <<1, 1>>, {0, 1}) \cup ArraysOf("int", <<1, 1>>, {2})
                \cup ArraysOf("bool", <<1>>, {0, 1})
        badb == ArraysOf("float", <<1>>, {0, 1}) \cup ArraysOf("int", <<1, 1>>, {-1, 2})
                \cup ArraysOf("bool", <<1, 1, 1>>, {0, 1})
    IN  (bada \X (good \cup badb))
        \cup (good \X badb)
        \cup UNION {{<<a_, b_>> : a_ \in Matrices("bool", mm[1], 1),
                                  b_ \in Matrices("bool", mm[2], 1)} :
                    mm \in {p \in (1..MaxRows) \X (1..MaxRows) : p[1] # p[2]}}

SolverInit ==
    /\ \/ WellShaped(a, b)
       \/ \E args \in IllShaped :
             /\ a = args[1]
             /\ b = args[2]
    /\ x = NotSolved
    /\ loop = NoLoop
    /\ arg = 0
    /\ outcome = NotCalled
    /\ op = "init"
    /\ g = NoGraph
    /\ iset = {}
    /\ oset = {}
    /\ tys = GoodTypes
    /\ plike = NoPlike
    /\ ret = NoCall
    /\ verdict = NoVerdict

Solve ==
    /\ op = "init"
    /\ op' = "solver.solve"
    /\ x' = solve(a, b)
    /\ UNCHANGED <<g, iset, oset, tys, plike, ret, verdict, a, b, loop, arg, outcome>>

SolverNext == Solve

SpecSolver == SolverInit /\ [][SolverNext]_vars

----------------------------------------------------------------------------
(* Properties of solver.solve *)

\* Entry (i, j) of the right-hand side as passed: b is a matrix or a vector.
RhsAt(b_, i, j) == IF Len(b_.shape) = 1 THEN b_.data[i + 1] ELSE At2(b_, i, j)

\* Number of right-hand sides of b as passed
Neqs(b_) == IF Len(b_.shape) = 1 THEN 1 ELSE b_.shape[2]

\* (a_ xs)[i] = b_[i, j] for every row i, arithmetic modulo 2 on the entries
Satisfies(a_, b_, j, xs) ==
    \A i \in 0..(a_.shape[1] - 1) :
        Cardinality({c \in 0..(a_.shape[2] - 1) : At2(a_, i, c) # 0 /\ xs[c + 1] # 0}) % 2
            = RhsAt(b_, i, j) % 2

\* Every solution of a_ x = b_[:, j] over GF(2)
Solutions(a_, b_, j) == {xs \in [1..a_.shape[2] -> {0, 1}] : Satisfies(a_, b_, j, xs)}

Weight(xs) == Cardinality({c \in 1..Len(xs) : xs[c] # 0})

\* Column j of b as a right-hand side of its own
ColumnOf(b_, j) ==
    [dtype |-> b_.dtype, shape |-> <<b_.shape[1], 1>>,
     data |-> [i \in 1..b_.shape[1] |-> RhsAt(b_, i - 1, j)]]

\* The reduced form of [a | b] the solver works on
Reduced(a_, b_) ==
    LET cb == arraycheck(b_).arr
        b2 == IF Len(cb.shape) = 1 THEN AsColumn(cb) ELSE cb
    IN  GaussJordan(BitRows(arraycheck(a_).arr, b2), <<>>, 0, a_.shape[2])

Solved == op = "solver.solve" /\ x.exc = "none"

\* C4 (solver soundness): every vector solver.solve returns for a column of b
\* has the length of a row of a and satisfies a x = b[:, j] over GF(2).
C4_Soundness ==
    Solved =>
        /\ Len(x.out) = Neqs(b)
        /\ \A j \in 1..Len(x.out) :
              x.out[j].some =>
                  /\ Len(x.out[j].x) = a.shape[2]
                  /\ Satisfies(a, b, j - 1, x.out[j].x)

\* A singular two-row system solved with a vector of weight two or more
C4_Witness ==
    /\ Solved
    /\ a.shape[1] = 2
    /\ Len(Reduced(a, b).piv) < a.shape[2]
    /\ \E j \in 1..Len(x.out) : x.out[j].some /\ Weight(x.out[j].x) >= 2

\* C5 (solver completeness): a column is answered None exactly when
\* a x = b[:, j] has no solution, which is exactly when the reduced matrix has
\* a row with a zero A-part and a 1 in that column of B; the answer for a
\* column is the answer solve gives for that column alone.
C5_Completeness ==
    Solved =>
        LET red == Reduced(a, b)
        IN  \A j \in 1..Len(x.out) :
                /\ (~x.out[j].some) <=> (Solutions(a, b, j - 1) = {})
                /\ (~x.out[j].some) <=> Inconsistent(red, j - 1)
                /\ <<x.out[j]>> = solve(a, ColumnOf(b, j - 1)).out

\* One call answering None for one column and a vector for another
C5_Witness ==
    /\ Solved
    /\ Len(x.out) >= 2
    /\ \E j \in 1..Len(x.out) : ~x.out[j].some
    /\ \E j \in 1..Len(x.out) : x.out[j].some /\ Weight(x.out[j].x) >= 1

\* The free-variable assignment of a solution: the free columns it sets to 1
FreePattern(free, xs) == {c \in free : xs[c + 1] # 0}

----------------------------------------------------------------------------
(* Properties of the finders and verifiers, on the nodes of the state      *)

OddOf(S) == {v \in Nodes(g) : Cardinality(Neighbours(g, v) \cap S) % 2 = 1}

\* The labels in force: the argument, or all XY when it is None
LabelsHere == IF plike.kind = "none" THEN DefaultPlike(Nodes(g), oset).map ELSE plike.map

FoundBy(name) == op = name /\ ret.exc = "none" /\ ret.found

LayerMax(layer) == Max({layer[v] : v \in DOMAIN layer} \cup {0})

\* F1 - F3 for f and a layering
IsCausalFlow(f, layer) ==
    \A u \in DOMAIN f :
        /\ f[u] \in Neighbours(g, u)
        /\ layer[u] > layer[f[u]]
        /\ \A w \in Neighbours(g, f[u]) \ {u} : layer[u] > layer[w]

\* The layerings into 0..depth with the measured vertices in layer first or
\* later
Layerings(first, depth) ==
    {layer \in [Nodes(g) -> 0..depth] : \A u \in Nodes(g) \ oset : layer[u] >= first}

\* Some f : V\O -> V\I and some layering of the set satisfy F1 - F3.
HasCausalFlow(layerings) ==
    \E f \in [Nodes(g) \ oset -> Nodes(g) \ iset] :
        /\ \A u \in DOMAIN f : f[u] \in Neighbours(g, u)
        /\ \E layer \in layerings : IsCausalFlow(f, layer)

\* C1 (causal flow, existence): flow.find returns a witness exactly when some
\* f : V\O -> V\I and some layering satisfy F1, F2 and F3, and None exactly
\* when none does.  F2 and F3 bound the layers of measured vertices from
\* below only, so a layering exists exactly when one exists with the outputs
\* in layer 0 and the k measured vertices in the layers 1..k.
C1_FlowFindIffFlowExists ==
    (op = "flow.find" /\ ret.exc = "none") =>
        (ret.found <=> HasCausalFlow(Layerings(0, Cardinality(Nodes(g) \ oset))))

\* flow.find returns a flow of two or more layers of measured vertices
C1_Witness == FoundBy("flow.find") /\ LayerMax(ret.layer) >= 2 /\ iset # {}

\* C2 (round trip, flow and gflow): the witness flow.find or gflow.find
\* returned passes the matching verify on the same arguments.
C2_RoundTrip ==
    op \in {"flow.verify", "gflow.verify"} => verdict = VerifyOk

\* gflow.verify has accepted the witness of gflow.find under a labelling with
\* a plane other than XY
C2_Witness ==
    /\ op = "gflow.verify"
    /\ verdict = VerifyOk
    /\ \E u \in DOMAIN LabelsHere : LabelsHere[u] # XY /\ Cardinality(ret.f[u]) >= 2

\* C3 (round trip, Pauli flow): the witness pflow.find returned passes
\* pflow.verify, the verifier applying conditions 1 - 4.
C3_PflowRoundTrip ==
    op = "pflow.verify" => verdict = VerifyOk

\* The measured vertices carrying one of the labels
Labelled(labels) == {v \in DOMAIN LabelsHere : LabelsHere[v] \in labels}

\* The gflow conditions on the correction set S of u under a layering: S in
\* V\I, every other vertex of S and Odd(S) in an earlier layer, the plane
\* condition of u.
IsGflowAt(u, S, layer) ==
    /\ \A v \in (S \cup OddOf(S)) \ {u} : layer[u] > layer[v]
    /\ LabelHolds(LabelsHere[u], u, S, OddOf(S))

\* The Pauli-flow conditions on the correction set S of u under a layering
\* (the definition pflow.py refers to): a vertex of S need not be in an earlier
\* layer when it is measured in X or Y, nor a vertex of Odd(S) when measured in
\* Y or Z; a Y-measured vertex not in an earlier layer is in both or neither.
IsPauliFlowAt(u, S, layer) ==
    /\ \A v \in (S \ {u}) \ Labelled({PX, PY}) : layer[u] > layer[v]
    /\ \A v \in (OddOf(S) \ {u}) \ Labelled({PY, PZ}) : layer[u] > layer[v]
    /\ \A v \in Labelled({PY}) \ {u} :
          layer[u] <= layer[v] => (v \in S <=> v \in OddOf(S))
    /\ LabelHolds(LabelsHere[u], u, S, OddOf(S))

\* Some gflow has a layering of the set.  The conditions bear on each f(u)
\* separately, so f exists exactly when every u has a correction set.
HasGflow(layerings) ==
    \E layer \in layerings :
        \A u \in Nodes(g) \ oset :
            \E S \in SUBSET (Nodes(g) \ iset) : IsGflowAt(u, S, layer)

\* Some Pauli flow has a layering of the set.
HasPauliFlow(layerings) ==
    \E layer \in layerings :
        \A u \in Nodes(g) \ oset :
            \E S \in SUBSET (Nodes(g) \ iset) : IsPauliFlowAt(u, S, layer)

\* C7 (maximal delay): no causal flow, gflow or Pauli flow of the same open
\* graph and labels has a smaller maximum layer than the witness flow.find,
\* gflow.find or pflow.find returned.  A flow or gflow has its measured
\* vertices in the layers from 1 on (layer semantics of section 3); a Pauli
\* flow is compared with the layerings that start at 0, as the witnesses of
\* pflow.find do.
C7_MaximalDelay ==
    /\ FoundBy("flow.find") => ~HasCausalFlow(Layerings(1, LayerMax(ret.layer) - 1))
    /\ FoundBy("gflow.find") => ~HasGflow(Layerings(1, LayerMax(ret.layer) - 1))
    /\ FoundBy("pflow.find") => ~HasPauliFlow(Layerings(0, LayerMax(ret.layer) - 1))

\* gflow.find returns a gflow of two measured layers that uses a plane other
\* than XY
C7_Witness ==
    /\ FoundBy("gflow.find")
    /\ LayerMax(ret.layer) >= 2
    /\ \E u \in DOMAIN LabelsHere : LabelsHere[u] # XY

C9_FlowTotality ==
    (op = "flow.find" /\ ret.exc = "none") =>
        IF ret.found
        THEN /\ DOMAIN ret.f = Nodes(g) \ oset
             /\ \A u \in DOMAIN ret.f : ret.f[u] \in Nodes(g) \ iset
             /\ DOMAIN ret.layer = Nodes(g)
             /\ \A v \in Nodes(g) : ret.layer[v] \in Nat
             /\ \A v \in iset \cap oset : ret.layer[v] = 0 /\ v \notin DOMAIN ret.f
        ELSE ret.f = <<>> /\ ret.layer = <<>>

\* flow.find returns a witness on a graph with a vertex that is input and
\* output, and with an input that is measured
C9_Witness ==
    /\ FoundBy("flow.find")
    /\ iset \cap oset # {}
    /\ iset \cap DOMAIN ret.f # {}

NumLayers(r) == Cardinality({r.layer[v] : v \in DOMAIN r.layer})

AllXY == \A u \in DOMAIN LabelsHere : LabelsHere[u] = XY

\* C10 (hierarchy): with all labels XY, gflow.find returns a witness whenever
\* flow.find does and pflow.find whenever gflow.find does, and the number of
\* layers does not grow from flow to gflow to pflow.
C10_Hierarchy ==
    /\ FoundBy("flow.find") =>
          LET gf == gflow_find(g, iset, oset, tys, NoPlike)
          IN  gf.exc = "none" /\ gf.found /\ NumLayers(ret) >= NumLayers(gf)
    /\ (FoundBy("gflow.find") /\ AllXY) =>
          LET pf == pflow_find(g, iset, oset, tys, plike)
          IN  pf.exc = "none" /\ pf.found /\ NumLayers(ret) >= NumLayers(pf)

\* flow.find returns a flow of three layers on a graph where gflow.find and
\* pflow.find return witnesses too
C10_Witness ==
    /\ FoundBy("flow.find")
    /\ NumLayers(ret) >= 3
    /\ gflow_find(g, iset, oset, tys, NoPlike).found
    /\ pflow_find(g, iset, oset, tys, NoPlike).found

----------------------------------------------------------------------------
(* pflow.find without a Pauli label *)

NoPauliLabel == \A k \in DOMAIN LabelsHere : LabelsHere[k] \notin {PX, PY, PZ}

\* C11 (pflow.find without a Pauli label is gflow.find): when the labels
\* passed to pflow.find hold no X, Y or Z (None included), pflow.find warns
\* 'No Pauli measurement found. Use gflow.find instead.' and returns the f and
\* layer, or None, that gflow.find returns on the same graph and labels.
C11_PflowAsGflow ==
    (op = "pflow.find" /\ ret.exc = "none" /\ NoPauliLabel) =>
        /\ ret.warned = {"No Pauli measurement found. Use gflow.find instead."}
        /\ AsFound(ret) = AsFound(gflow_find(g, iset, oset, tys, plike))

----------------------------------------------------------------------------
(* Calls of verify on a witness the caller holds (a FlowResult or a        *)
(* GFlowResult of common.py, built by hand or changed after find)          *)

\* the graphs of up to MaxHeld nodes carry every witness; the graphs of the
\* test suite carry their expected witness with one entry changed
MaxHeld == 2

PartialMaps(D, R) == UNION {[dom -> R] : dom \in SUBSET D}

\* FlowResult(f, layer) on the nodes V
FlowResults(V) ==
    {Returned(TRUE, f, layer, {}) :
        f \in PartialMaps(V, V), layer \in [V -> 0..Cardinality(V)]}

\* GFlowResult(f, layer) on the nodes V
GFlowResults(V) ==
    {Returned(TRUE, f, layer, {}) :
        f \in PartialMaps(V, SUBSET V), layer \in [V -> 0..Cardinality(V)]}

\* a witness with the layer of one node changed, or one node dropped from f
OneChange(w) ==
    {w}
    \cup {[w EXCEPT !.layer[v] = l] : v \in DOMAIN w.layer, l \in 0..(LayerMax(w.layer) + 1)}
    \cup {[w EXCEPT !.f = [u \in (DOMAIN w.f) \ {v} |-> w.f[u]]] : v \in DOMAIN w.f}

AsResult(c) == Returned(TRUE, c.f, c.layer, {})

\* what the caller holds for an open graph: the class of the witness, the
\* witness and the label argument
Held(inp) ==
    IF Len(inp.g.order) <= MaxHeld
    THEN {[op |-> "FlowResult", w |-> w, pl |-> NoPlike] : w \in FlowResults(Nodes(inp.g))}
         \cup {[op |-> "GFlowResult", w |-> w, pl |-> pl] :
                  w \in GFlowResults(Nodes(inp.g)),
                  pl \in {NoPlike} \cup {AsMapping(m) : m \in [Nodes(inp.g) \ inp.oset -> PPlanes]}}
    ELSE UNION {
             (IF CASES[k].flow.found
              THEN {[op |-> "FlowResult", w |-> w, pl |-> NoPlike] :
                       w \in OneChange(AsResult(CASES[k].flow))} ELSE {})
             \cup (IF CASES[k].gflow.found
                   THEN {[op |-> "GFlowResult", w |-> w, pl |-> CASES[k].plane] :
                            w \in OneChange(AsResult(CASES[k].gflow))} ELSE {})
             \cup (IF CASES[k].pflow.found
                   THEN {[op |-> "GFlowResult", w |-> w, pl |-> CASES[k].pplane] :
                            w \in OneChange(AsResult(CASES[k].pflow))} ELSE {}) :
             k \in {j \in 1..Len(CASES) : CASES[j].g = inp.g /\ CASES[j].iset = inp.iset
                                          /\ CASES[j].oset = inp.oset}}

VerifyInit ==
    /\ \E inp \in {i \in SmallInputs : Len(i.g.order) <= MaxHeld} \cup AssetInputs :
          /\ g = inp.g
          /\ iset = inp.iset
          /\ oset = inp.oset
          /\ \E h \in Held(inp) :
                /\ op = h.op
                /\ ret = h.w
                /\ plike = h.pl
    /\ tys = GoodTypes
    /\ verdict = NoVerdict
    /\ a = NoArray
    /\ b = NoArray
    /\ x = NotSolved
    /\ loop = NoLoop
    /\ arg = 0
    /\ outcome = NotCalled

VerifyNext ==
    \/ FlowVerify
    \/ GflowVerify
    \/ PflowVerify

SpecVerify == VerifyInit /\ [][VerifyNext]_vars

----------------------------------------------------------------------------
(* Properties of verify, on the nodes of the state *)

Verified == op \in {"flow.verify", "gflow.verify", "pflow.verify"}

\* the correction set of u in the witness verified
CorrectionSet(u) == IF op = "flow.verify" THEN {ret.f[u]} ELSE ret.f[u]

\* the k-th node the diagnostic names, as a node of the graph
NamedNode(k) ==
    IF verdict.decoded THEN verdict.diag.nodes[k]
    ELSE decode(IndexMap(g.order), verdict.diag.nodes[k])

\* condition 1 of section 4.G
Cond1At(v) == (ret.layer[v] = 0) <=> (v \in oset)

\* condition 2 of section 4.G
Cond2DomainAt(u) == (u \in DOMAIN ret.f) <=> (u \notin oset)

Cond2CodomainAt(u) == u \in DOMAIN ret.f => CorrectionSet(u) \subseteq Nodes(g) \ iset

\* condition 3 of section 4.G
Cond3At(u, v) ==
    (v # u /\ v \in CorrectionSet(u) \cup OddOf(CorrectionSet(u))) => ret.layer[u] > ret.layer[v]

\* condition 4 of section 4.G
Cond4At(u) == LabelHolds(LabelsHere[u], u, CorrectionSet(u), OddOf(CorrectionSet(u)))

Cond1 == \A v \in Nodes(g) : Cond1At(v)

Cond2 == \A u \in Nodes(g) : Cond2DomainAt(u) /\ Cond2CodomainAt(u)

Cond3 == \A u \in DOMAIN ret.f : \A v \in Nodes(g) : Cond3At(u, v)

Cond4 == \A u \in DOMAIN ret.f : Cond4At(u)

PlaneKind == IF op = "pflow.verify" THEN "InconsistentFlowPPlane" ELSE "InconsistentFlowPlane"

----------------------------------------------------------------------------
(* The finders under another enumeration of the nodes *)

Reverse(s) == [k \in 1..Len(s) |-> s[Len(s) + 1 - k]]

\* the same nodes and edges, the nodes inserted in the opposite order, so
\* that IndexMap assigns the indices in the opposite order
Reordered == [g EXCEPT !.order = Reverse(g.order)]

Finding == op \in {"flow.find", "gflow.find", "pflow.find"}

\* the finder of the state called on the reordered graph
FindAgain ==
    CASE op = "flow.find" -> flow_find(Reordered, iset, oset, tys)
      [] op = "gflow.find" -> gflow_find(Reordered, iset, oset, tys, plike)
      [] op = "pflow.find" -> pflow_find(Reordered, iset, oset, tys, plike)

----------------------------------------------------------------------------
(* Calls on arguments of any kind, well-formed or not (tests/test_common.py, *)
(* test_gflow_redundant, test_pflow_redundant)                               *)

\* a value that is not a node of the graph ("x" in tests/test_common.py)
Stranger == 0

\* the graphs nx.Graph builds on the nodes 1..n, n = 0 included, with or
\* without self-loops
ArgGraphs ==
    UNION {{[order |-> [k \in 1..n |-> k], edges |-> E] :
               E \in SUBSET {{u, v} : u, v \in 1..n}} : n \in 0..MaxHeld}

\* the classes of g, iset and oset: as annotated, or a str ("hoge")
ArgTypes == [g : {"Graph", "str"}, iset : {"set", "str"}, oset : {"set", "str"}]

\* the label arguments: None, a str, or a mapping on some of the nodes and
\* the stranger
ArgLabels(gr) ==
    {NoPlike, [kind |-> "str", map |-> <<>>]}
    \cup {AsMapping(m) : m \in PartialMaps(Nodes(gr) \cup {Stranger}, {XY, PX})}

\* the empty witness with every node in layer 0
EmptyWitness(gr) == Returned(TRUE, <<>>, [v \in Nodes(gr) |-> 0], {})

ArgsInit ==
    /\ \E gr \in ArgGraphs :
          /\ g = gr
          /\ iset \in SUBSET (Nodes(gr) \cup {Stranger})
          /\ oset \in SUBSET (Nodes(gr) \cup {Stranger})
          /\ ret = EmptyWitness(gr)
          /\ \/ /\ tys \in ArgTypes
                /\ plike = NoPlike
                /\ op = "FlowResult"
             \/ /\ tys = GoodTypes
                /\ plike \in ArgLabels(gr)
                /\ op = "GFlowResult"
    /\ verdict = NoVerdict
    /\ a = NoArray
    /\ b = NoArray
    /\ x = NotSolved
    /\ loop = NoLoop
    /\ arg = 0
    /\ outcome = NotCalled

SpecArgs == ArgsInit /\ [][Next]_vars

----------------------------------------------------------------------------
(* Properties of the argument checks *)

\* exception and message of the call of the state
CallError ==
    IF Verified THEN [exc |-> verdict.exc, msg |-> verdict.msg]
    ELSE [exc |-> ret.exc, msg |-> ret.msg]

\* the label argument is a mapping on all of V \ O and on some output too
RedundantLabels ==
    /\ plike.kind = "mapping"
    /\ (Nodes(g) \ oset) \subseteq DOMAIN plike.map
    /\ (DOMAIN plike.map) \subseteq Nodes(g)
    /\ (DOMAIN plike.map) \cap oset # {}

\* the label argument without the labels of the outputs
WithoutOutputs == AsMapping([k \in (DOMAIN plike.map) \ oset |-> plike.map[k]])

\* C14 (redundant labels are not fatal): a label argument that covers V \ O
\* and labels an output too does not make gflow.find / pflow.find raise; the
\* call warns 'Ignoring plane[v] where v in oset.' (gflow) or 'Ignoring
\* pplane[v] where v in oset.' (pflow) and returns what it returns without the
\* labels of the outputs.
C14_RedundantLabels ==
    /\ (op = "gflow.find" /\ check_graph(g, iset, oset, tys) = NoError /\ RedundantLabels) =>
          /\ ret.exc = "none"
          /\ "Ignoring plane[v] where v in oset." \in ret.warned
          /\ AsFound(ret) = AsFound(gflow_find(g, iset, oset, tys, WithoutOutputs))
    /\ (op = "pflow.find" /\ check_graph(g, iset, oset, tys) = NoError /\ RedundantLabels) =>
          /\ ret.exc = "none"
          /\ "Ignoring pplane[v] where v in oset." \in ret.warned
          /\ AsFound(ret) = AsFound(pflow_find(g, iset, oset, tys, WithoutOutputs))

\* the label argument after the default of gflow.find / pflow.find
LabelArg == IF plike.kind = "none" THEN DefaultPlike(Nodes(g), oset) ELSE plike

C16_GraphValidation ==
    (Finding \/ Verified) =>
        LET e == CallError
            typed == tys = GoodTypes
            GraphErrors == {"g must be a networkx.Graph.", "iset must be a set.",
                            "oset must be a set.", "Graph is empty.", "Self-loop detected.",
                            "iset must be a subset of the nodes.",
                            "oset must be a subset of the nodes."}
        IN  /\ ~typed => e.exc = "TypeError" /\ e.msg \in GraphErrors
            /\ tys.g # "Graph" => e.msg = "g must be a networkx.Graph."
            /\ (tys.g = "Graph" /\ tys.iset # "set") => e.msg = "iset must be a set."
            /\ (tys.g = "Graph" /\ tys.iset = "set" /\ tys.oset # "set") =>
                  e.msg = "oset must be a set."
            /\ (typed /\ Len(g.order) = 0) =>
                  e = Raise("ValueError", "Graph is empty.")
            /\ (typed /\ Len(g.order) # 0 /\ SelfLoops(g) # {}) =>
                  e = Raise("ValueError", "Self-loop detected.")
            /\ (typed /\ Len(g.order) # 0 /\ SelfLoops(g) = {} /\ ~(iset \subseteq Nodes(g))) =>
                  e = Raise("ValueError", "iset must be a subset of the nodes.")
            /\ (typed /\ Len(g.order) # 0 /\ SelfLoops(g) = {} /\ iset \subseteq Nodes(g)
                /\ ~(oset \subseteq Nodes(g))) =>
                  e = Raise("ValueError", "oset must be a subset of the nodes.")
            /\ (typed /\ Len(g.order) # 0 /\ SelfLoops(g) = {} /\ iset \subseteq Nodes(g)
                /\ oset \subseteq Nodes(g)) =>
                  e.msg \notin GraphErrors
            /\ e.msg \in GraphErrors =>
                  IF Verified THEN verdict = VerifyRaised(e) ELSE ret = Raised(e)

\* flow.verify raises TypeError on an empty graph passed with an iset that
\* is no set
C16_Witness ==
    /\ op = "flow.verify"
    /\ Len(g.order) = 0
    /\ tys.g = "Graph"
    /\ tys.iset # "set"
    /\ verdict.exc = "TypeError"

----------------------------------------------------------------------------
(* The shape contract of solver.solve *)

\* the array passes _arraycheck: bool, or integer with entries 0 / 1
IsBinary(arr) ==
    \/ arr.dtype = "bool"
    \/ arr.dtype = "int" /\ \A k \in 1..Len(arr.data) : arr.data[k] \in {0, 1}

\* what _arraycheck raises on an array that is not binary
NotBinaryError(arr) ==
    IF arr.dtype \notin {"bool", "int"}
    THEN SolveRaised("TypeError", "Need to cast non-integral dtype to boolean.")
    ELSE SolveRaised("ValueError", "Casted array is not equivalent to the original.")

\* C17 (shape contract of solver.solve): a 1-D b of length m is one column;
\* the list returned has one entry per column of b and every entry that is
\* not None has length cols(a); solve raises ValueError and returns nothing
\* when a is not 2-D, b neither 1-D nor 2-D, or the rows of a and b differ,
\* and before that TypeError / ValueError when a or b is not a binary array.
C17_ShapeContract ==
    op = "solver.solve" =>
        /\ ~IsBinary(a) => x = NotBinaryError(a)
        /\ (IsBinary(a) /\ ~IsBinary(b)) => x = NotBinaryError(b)
        /\ (IsBinary(a) /\ IsBinary(b)) =>
              /\ Len(a.shape) # 2 => x = SolveRaised("ValueError", "a must be a 2D array.")
              /\ (Len(a.shape) = 2 /\ Len(b.shape) \notin {1, 2}) =>
                    x = SolveRaised("ValueError", "b must be a 2D array or a 1D vector.")
              /\ (Len(a.shape) = 2 /\ Len(b.shape) \in {1, 2} /\ b.shape[1] # a.shape[1]) =>
                    x = SolveRaised("ValueError", "Inconsistent number of rows in a and b.")
              /\ (Len(a.shape) = 2 /\ Len(b.shape) \in {1, 2} /\ b.shape[1] = a.shape[1]) =>
                    /\ x.exc = "none"
                    /\ Len(x.out) = Neqs(b)
                    /\ \A j \in 1..Len(x.out) : x.out[j].some => Len(x.out[j].x) = a.shape[2]
                    /\ Len(b.shape) = 1 =>
                          /\ Len(x.out) = 1
                          /\ x = solve(a, [b EXCEPT !.shape = <<b.shape[1], 1>>])

\* solve answers a 1-D right-hand side of two rows with one vector of the
\* length of the columns of a
C17_Witness ==
    /\ op = "solver.solve"
    /\ Len(b.shape) = 1
    /\ a.shape[1] >= 2
    /\ a.shape[2] >= 2
    /\ x.exc = "none"
    /\ Len(x.out) = 1
    /\ x.out[1].some

\* C18 (diagnostics name nodes): when the witness is rejected, flow.verify,
\* gflow.verify and pflow.verify each raise ValueError with the diagnostic of
\* the core decoded through IndexMap, so that the nodes it names are nodes
\* of the graph and never dense indices.
C18_DecodedDiagnostics ==
    (Verified /\ ~verdict.diag.ok) =>
        /\ verdict.exc = "ValueError"
        /\ verdict.decoded
        /\ \A k \in 1..Len(verdict.diag.nodes) : verdict.diag.nodes[k] \in Nodes(g)

----------------------------------------------------------------------------
(* The layer loop of the causal-flow finder, one round per step            *)
(* flow.find validates and encodes its arguments, the core then runs the   *)
(* rounds of section 4.D until one of them makes no pairing, and the       *)
(* wrapper decodes what the core returns.                                  *)

EncodedGraph == encode_graph(IndexMap(g.order), g)

EncodedInputs == encode_set(IndexMap(g.order), iset)

EncodedOutputs == encode_set(IndexMap(g.order), oset)

\* flow.find up to the core's first round
FlowBegin ==
    /\ op = "init"
    /\ check_graph(g, iset, oset, tys) = NoError
    /\ op' = "flow.round"
    /\ loop' = FlowStart(EncodedGraph, EncodedOutputs)
    /\ UNCHANGED <<g, iset, oset, tys, plike, ret, verdict, a, b, x, arg, outcome>>

\* a round that pairs at least one vertex
FlowStep ==
    /\ op = "flow.round"
    /\ FlowRound(EncodedGraph, EncodedInputs, loop).solved # loop.solved
    /\ loop' = FlowRound(EncodedGraph, EncodedInputs, loop)
    /\ UNCHANGED <<g, iset, oset, tys, plike, op, ret, verdict, a, b, x, arg, outcome>>

\* the round that pairs nothing ends the loop; the wrapper decodes the outcome
FlowEnd ==
    /\ op = "flow.round"
    /\ FlowRound(EncodedGraph, EncodedInputs, loop).solved = loop.solved
    /\ op' = "flow.find"
    /\ ret' = LET codec == IndexMap(g.order)
                  ret_ == FlowOutcome(EncodedGraph, loop)
              IN  IF ret_.found
                  THEN Returned(TRUE, decode_flow(codec, ret_.f),
                                decode_layer(codec, ret_.layer), {})
                  ELSE Returned(FALSE, <<>>, <<>>, {})
    /\ UNCHANGED <<g, iset, oset, tys, plike, verdict, a, b, x, loop, arg, outcome>>

LoopNext == FlowBegin \/ FlowStep \/ FlowEnd

\* The core runs to completion once called: every enabled round is taken.
SpecFlowLoop == Init /\ [][LoopNext]_vars /\ WF_vars(LoopNext)

\* Measured vertices of the call
Measured == (DOMAIN EncodedGraph) \ EncodedOutputs

\* C19: the finder loop terminates.  solved never shrinks; every round but the
\* last solves at least one new vertex and gives each vertex it solves the
\* current layer number; there are at most |V \ O| + 1 rounds, so no layer
\* number exceeds |V \ O|; and the call always ends, returning a complete
\* witness or "not found" (the same outcome flow.find computes in one go).
C19_LoopBounds ==
    /\ op = "flow.round" =>
          /\ EncodedOutputs \subseteq loop.solved
          /\ loop.solved \subseteq DOMAIN EncodedGraph
          /\ loop.l - 1 <= Cardinality(Measured)
          /\ loop.l - 1 <= Cardinality(loop.solved \ EncodedOutputs)
          /\ \A v \in DOMAIN loop.layer : loop.layer[v] <= Cardinality(Measured)
    /\ op = "flow.find" =>
          /\ loop.l <= Cardinality(Measured) + 1
          /\ ret = flow_find(g, iset, oset, tys)
          /\ ret.exc = "none"
          /\ ret.found => /\ DOMAIN ret.f = Nodes(g) \ oset
                          /\ DOMAIN ret.layer = Nodes(g)
                          /\ \A v \in Nodes(g) : ret.layer[v] <= Cardinality(Nodes(g) \ oset)
          /\ ~ret.found => ret.f = <<>> /\ ret.layer = <<>>

C19_RoundProgress ==
    (op = "flow.round" /\ op' = "flow.round") =>
        /\ loop.solved \subseteq loop'.solved
        /\ loop'.solved # loop.solved
        /\ loop'.l = loop.l + 1
        /\ \A v \in loop'.solved \ loop.solved : loop'.layer[v] = loop.l
        /\ \A v \in loop.solved : loop'.layer[v] = loop.layer[v]

C19_LoopTerminates ==
    /\ []C19_LoopBounds
    /\ [][C19_RoundProgress]_vars
    /\ <>(op = "flow.find")

\* a call whose loop ran two pairing rounds and ended with a witness
C19_Witness ==
    /\ op = "flow.find"
    /\ ret.found
    /\ loop.l = 3
    /\ \E v \in DOMAIN loop.layer : loop.layer[v] = 2

----------------------------------------------------------------------------
(* IndexMap on its own: encode and decode calls on a map built from a set  *)

\* list(vset) : the nodes of the set in some order, each once
NodeLists ==
    UNION {{s \in [1..n -> 1..MaxNodes] : \A j, k \in 1..n : s[j] = s[k] => j = k} :
              n \in 0..MaxNodes}

\* codec = IndexMap(g.nodes)
CodecInit ==
    /\ \E s \in NodeLists : g = [order |-> s, edges |-> {}]
    /\ iset = {}
    /\ oset = {}
    /\ tys = GoodTypes
    /\ plike = NoPlike
    /\ op = "init"
    /\ ret = NoCall
    /\ verdict = NoVerdict
    /\ a = NoArray
    /\ b = NoArray
    /\ x = NotSolved
    /\ loop = NoLoop
    /\ arg = 0
    /\ outcome = NotCalled

\* codec.encode(v), v a node of the set or not
Encode ==
    /\ op \in {"init", "decode"}
    /\ \E v \in {Stranger} \cup (1..MaxNodes) :
          /\ arg' = v
          /\ outcome' = IndexMap_encode(IndexMap(g.order), v)
    /\ op' = "encode"
    /\ UNCHANGED <<g, iset, oset, tys, plike, ret, verdict, a, b, x, loop>>

\* codec.decode(i), i in range or not
Decode ==
    /\ op \in {"init", "encode"}
    /\ \E i \in (-MaxNodes - 1)..MaxNodes :
          /\ arg' = i
          /\ outcome' = IndexMap_decode(IndexMap(g.order), i)
    /\ op' = "decode"
    /\ UNCHANGED <<g, iset, oset, tys, plike, ret, verdict, a, b, x, loop>>

CodecNext == Encode \/ Decode

SpecIndexMap == CodecInit /\ [][CodecNext]_vars

\* C20: IndexMap is a bijection between the nodes it was built from and
\* 0..n-1.  encode of a node of the set returns an index of 0..n-1 that decode
\* maps back to the node; decode of an index of 0..n-1 returns a node that
\* encode maps back to the index; distinct nodes have distinct indices; encode
\* of any other node raises ValueError.
C20_IndexMapBijection ==
    LET codec == IndexMap(g.order)
        n == NumNodes(codec)
    IN  /\ (op = "encode" /\ arg \in Nodes(g)) =>
              /\ outcome.exc = "none"
              /\ outcome.val \in 0..(n - 1)
              /\ IndexMap_decode(codec, outcome.val) = Gives(arg)
        /\ (op = "encode" /\ arg \notin Nodes(g)) =>
              /\ outcome.exc = "ValueError"
              /\ outcome.msg = ToString(arg) \o " not found."
        /\ (op = "decode" /\ arg \in 0..(n - 1)) =>
              /\ outcome.exc = "none"
              /\ outcome.val \in Nodes(g)
              /\ IndexMap_encode(codec, outcome.val) = Gives(arg)
        /\ \A v, w \in Nodes(g) :
              IndexMap_encode(codec, v) = IndexMap_encode(codec, w) => v = w
        /\ Cardinality(Nodes(g)) = n

\* the third node of a map of three nodes, not in ascending order, was encoded
C20_Witness ==
    /\ op = "encode"
    /\ NumNodes(IndexMap(g.order)) = 3
    /\ g.order[1] > g.order[2]
    /\ arg = g.order[3]
    /\ outcome = Gives(2)

----------------------------------------------------------------------------
(* IndexMap: indices out of range, and the order of the indices            *)

\* C21: decode(i) raises ValueError("<i> not found.") for every integer i
\* outside 0..n-1, every negative i included, and returns a node only for
\* 0 <= i < n.
C21_DecodeRange ==
    op = "decode" =>
        IF arg \in Indices(IndexMap(g.order))
        THEN outcome.exc = "none" /\ outcome.val \in Nodes(g)
        ELSE outcome = Fails("ValueError", ToString(arg) \o " not found.")

\* The rank of v among the nodes in ascending order
Rank(vset, v) == Cardinality({w \in vset : w < v})

\* C22: the index order is fixed by the node set alone.  encode(v) is the rank
\* of v in ascending order and decode(i) is the i-th smallest node, whatever
\* the order in which the set was iterated when the map was built.
C22_AscendingOrder ==
    /\ (op = "encode" /\ arg \in Nodes(g)) => outcome = Gives(Rank(Nodes(g), arg))
    /\ (op = "decode" /\ arg \in Indices(IndexMap(g.order))) =>
          /\ outcome.exc = "none"
          /\ Rank(Nodes(g), outcome.val) = arg

====
